---- MODULE Spec2Model ----
(***************************************************************************)
(* Validation pipeline driver of ValidationCases/Automation.py.            *)
(*                                                                         *)
(* The filesystem is modelled as three trees: the VandV case subtree       *)
(* (source), the main case subtree (target, the directory the driver calls *)
(* config_path) and the output tree.  A name is a sequence of one-character*)
(* strings, so that str.startswith and Path.glob are computed on the       *)
(* characters.  A top-level entry of a tree is a plain file or a directory;*)
(* a directory holds plain files only (name -> content).                   *)
(***************************************************************************)
EXTENDS Integers, Sequences, FiniteSets, TLC

VARIABLES vandv, main, out, pc, mesh_folders, idx, simulation_success,
          proc, exit_code, log, collected, external, fs0, returncode,
          case_code, input_dir, plot_folders, output_dir, readme, matrix,
          agg_pc, agg_exit,
          cfg_exists, cfg_text, options, cfg_pc, cfg_exit,
          c_main, c_out, c_pc, c_idx, c_folders, c_view, c_overlap

\* the state of generate_combined_plots.py
aggvars == <<case_code, input_dir, plot_folders, output_dir, readme, matrix,
             agg_pc, agg_exit>>

\* the state of Automation.py and of its three trees
drvvars == <<vandv, main, out, pc, mesh_folders, idx, simulation_success,
             proc, exit_code, log, collected, external, fs0, returncode>>

\* the state of generate_dynamic_workflow.py around parse_config_file
cfgvars == <<cfg_exists, cfg_text, options, cfg_pc, cfg_exit>>

\* two instances of Automation.py on one case directory and one output path
concvars == <<c_main, c_out, c_pc, c_idx, c_folders, c_view, c_overlap>>

vars == <<drvvars, aggvars, cfgvars, concvars>>

(***************************************************************************)
(* Bounds of the model.                                                    *)
(***************************************************************************)
MaxDirs == 3

MaxProbe == 2

MaxSrcDirs == 2

MaxExternal == 1

(***************************************************************************)
(* Names.                                                                  *)
(***************************************************************************)
D_Mesh1 == <<"M","e","s","h","1">>

D_Mesh3 == <<"M","e","s","h","3">>

D_meshA == <<"m","e","s","h","_","a">>

D_2 == <<"2">>

D_1b == <<"1","_","b">>

D_7 == <<"7">>

D_0 == <<"0">>

D_Mes == <<"M","e","s">>

D_MESH == <<"M","E","S","H">>

D_res == <<"r","e","s">>

D_plots == <<"p","l","o","t","s">>

F_config == <<"C","o","n","f","i","g",".","c","f","g">>

F_plotpy == <<"P","l","o","t",".","p","y">>

F_restart == <<"r",".","d","a","t">>

F_grid == <<"g",".","s","u","2">>

F_hist == <<"h",".","c","s","v">>

F_vol == <<"v",".","v","t","u">>

F_notes == <<"n",".","t","x","t">>

F_dat == <<"d","a","t">>

F_meshlog == <<"M","e","s","h",".","l","o","g">>

F_png == <<"c",".","p","n","g">>

(***************************************************************************)
(* Tree nodes and helpers.                                                 *)
(***************************************************************************)
NoEnts == [k \in {} |-> ""]

File(c) == [isDir |-> FALSE, data |-> c, ents |-> NoEnts]

Dir(e) == [isDir |-> TRUE, data |-> "", ents |-> e]

Absent == [exists |-> FALSE, ents |-> NoEnts]

Tree(e) == [exists |-> TRUE, ents |-> e]

Overwrite(f, g) == [k \in (DOMAIN f) \cup (DOMAIN g) |-> IF k \in DOMAIN g THEN g[k] ELSE f[k]]

One(k, v) == [x \in {k} |-> v]

Perms(S) == {s \in [1..Cardinality(S) -> S] : \A x \in S : \E i \in 1..Cardinality(S) : s[i] = x}

Range(s) == {s[i] : i \in 1..Len(s)}

\* str.startswith(prefix)
StartsWith(name, prefix) ==
    /\ Len(name) >= Len(prefix)
    /\ \A i \in 1..Len(prefix) : name[i] = prefix[i]

\* the suffix test behind Path.glob("*" + suffix)
EndsWith(name, suffix) ==
    /\ Len(name) >= Len(suffix)
    /\ \A i \in 1..Len(suffix) : name[Len(name) - Len(suffix) + i] = suffix[i]

\* Path.glob(pattern) on a directory that holds plain files
Glob(ents, suffix) == {f \in DOMAIN ents : EndsWith(f, suffix)}

DigitChar(d) == CASE d = 0 -> "0" [] d = 1 -> "1" [] d = 2 -> "2" [] d = 3 -> "3"
                  [] d = 4 -> "4" [] d = 5 -> "5" [] d = 6 -> "6" [] d = 7 -> "7"
                  [] d = 8 -> "8" [] d = 9 -> "9"

RECURSIVE Decimal(_)
\* str(i) of a non-negative integer
Decimal(i) == IF i < 10 THEN <<DigitChar(i)>> ELSE Decimal(i \div 10) \o <<DigitChar(i % 10)>>

\* f"Mesh{i}"
MeshName(i) == <<"M","e","s","h">> \o Decimal(i)

(***************************************************************************)
(* Mesh-folder discovery.                                                  *)
(***************************************************************************)
\* the prefix tuple of the comprehension in main (Step 2)
DriverPrefixes == {<<"M","e","s","h">>, <<"m","e","s","h">>, <<"1">>, <<"2">>, <<"3">>, <<"4">>, <<"5">>}

\* a collector prefix tuple that also takes names starting with "p"
CollectorPrefixesWithPlots == {<<"M","e","s","h">>, <<"m","e","s","h">>, <<"p">>, <<"1">>, <<"2">>, <<"3">>, <<"4">>, <<"5">>}

\* the prefix tuple of the comprehension in collect_results
CollectorPrefixes == {<<"M","e","s","h">>, <<"m","e","s","h">>, <<"1">>, <<"2">>, <<"3">>, <<"4">>, <<"5">>}

\* d.name.startswith((...)) in main
DriverNameMatch(name) == \E p \in DriverPrefixes : StartsWith(name, p)

\* d.name.startswith((...)) in collect_results
CollectorNameMatch(name) == \E p \in CollectorPrefixes : StartsWith(name, p)

\* [d for d in config_path.iterdir() if d.is_dir() and d.name.startswith(...)] in main
DriverMeshFolders(tree) == {d \in DOMAIN tree.ents : tree.ents[d].isDir /\ DriverNameMatch(d)}

\* the same comprehension in collect_results
CollectorMeshFolders(tree) == {d \in DOMAIN tree.ents : tree.ents[d].isDir /\ CollectorNameMatch(d)}

(***************************************************************************)
(* FileReconciler: copy_files_from_vandv.                                  *)
(***************************************************************************)
\* the files the two glob loops copy, restart files first, mesh files second
RestartFiles(ents) == Glob(ents, <<".","d","a","t">>)

GridFiles(ents) == Glob(ents, <<".","s","u","2">>)

\* the copy loops writing in append mode instead of replacing the target file
CopyIntoAppend(node, srcEnts) ==
    LET copied == RestartFiles(srcEnts) \cup GridFiles(srcEnts)
        last   == IF GridFiles(srcEnts) # {} THEN GridFiles(srcEnts) ELSE RestartFiles(srcEnts)
    IN  IF node.isDir
        THEN {Dir(Overwrite(node.ents, [f \in copied |->
                 IF f \in DOMAIN node.ents THEN node.ents[f] \o srcEnts[f] ELSE srcEnts[f]]))}
        ELSE IF copied = {} THEN {node} ELSE {File(node.data \o srcEnts[f]) : f \in last}

\* shutil.copy2(file, target_mesh_folder) for every globbed file: into the
\* directory when the target is one, onto the target itself when
\* target_mesh_folder.exists() holds of a plain file (the last copy wins)
CopyInto(node, srcEnts) ==
    LET copied == RestartFiles(srcEnts) \cup GridFiles(srcEnts)
        last   == IF GridFiles(srcEnts) # {} THEN GridFiles(srcEnts) ELSE RestartFiles(srcEnts)
    IN  IF node.isDir
        THEN {Dir(Overwrite(node.ents, [f \in copied |-> srcEnts[f]]))}
        ELSE IF copied = {} THEN {node} ELSE {File(srcEnts[f]) : f \in last}

\* what one target entry can be after the loop over vandv_config_path.iterdir()
ReconciledEntry(src, tgt, n) ==
    IF n \in DOMAIN src.ents /\ src.ents[n].isDir
    THEN CopyInto(tgt.ents[n], src.ents[n].ents)
    ELSE {tgt.ents[n]}

\* the target trees copy_files_from_vandv can leave when both subtrees exist
ReconciledTrees(src, tgt) ==
    LET U == UNION {ReconciledEntry(src, tgt, n) : n \in DOMAIN tgt.ents}
    IN  {Tree(e) : e \in {g \in [DOMAIN tgt.ents -> U] :
                            \A n \in DOMAIN tgt.ents : g[n] \in ReconciledEntry(src, tgt, n)}}

\* copy_files_from_vandv without the check of main_config_path
ReconcileOkSourceOnly(src, tgt) == src.exists

\* the return value of copy_files_from_vandv
ReconcileOk(src, tgt) == src.exists /\ tgt.exists

(***************************************************************************)
(* ConfigDistributor: copy_config_to_meshes.                               *)
(***************************************************************************)
ConfigExists(tree) == F_config \in DOMAIN tree.ents

\* copy_config_to_meshes leaving alone a folder that already has a Config.cfg
DistributedTreeKeepExisting(tree, folders) ==
    Tree([n \in DOMAIN tree.ents |->
            IF n \in folders /\ tree.ents[n].isDir /\ F_config \notin DOMAIN tree.ents[n].ents
            THEN Dir(Overwrite(tree.ents[n].ents, One(F_config, tree.ents[F_config].data)))
            ELSE tree.ents[n]])

\* shutil.copy2(config_file, mesh_folder / "Config.cfg") for the listed folders
DistributedTree(tree, folders) ==
    Tree([n \in DOMAIN tree.ents |->
            IF n \in folders /\ tree.ents[n].isDir
            THEN Dir(Overwrite(tree.ents[n].ents, One(F_config, tree.ents[F_config].data)))
            ELSE tree.ents[n]])

(***************************************************************************)
(* ResultCollector: collect_results.                                       *)
(***************************************************************************)
ResultSuffixes == {<<".","c","s","v">>, <<".","v","t","u">>, <<".","c","f","g">>,
                   <<".","d","a","t">>, <<".","s","u","2">>}

ResultFiles(ents) == UNION {Glob(ents, suf) : suf \in ResultSuffixes}

\* copy loops that leave alone a file the output folder already holds
CollectedFolderKeepExisting(outTree, n, ents) ==
    LET prior == IF n \in DOMAIN outTree.ents THEN outTree.ents[n].ents ELSE NoEnts
    IN  Dir(Overwrite([f \in ResultFiles(ents) |-> ents[f]], prior))

\* mesh_result_dir.mkdir(exist_ok=True) followed by the copy loops
CollectedFolder(outTree, n, ents) ==
    LET prior == IF n \in DOMAIN outTree.ents THEN outTree.ents[n].ents ELSE NoEnts
    IN  Dir(Overwrite(prior, [f \in ResultFiles(ents) |-> ents[f]]))

\* collect_results with enumerate(mesh_folders) counting from 0
CollectedTreeZeroBased(tree, outTree, order) ==
    LET meshes == [i \in 1..Len(order) |-> CollectedFolder(outTree, MeshName(i - 1), tree.ents[order[i]].ents)]
        byName == [n \in {MeshName(i - 1) : i \in 1..Len(order)} |->
                      meshes[CHOOSE i \in 1..Len(order) : MeshName(i - 1) = n]]
        plots  == IF D_plots \in DOMAIN tree.ents THEN One(D_plots, tree.ents[D_plots]) ELSE NoEnts
    IN  Tree(Overwrite(Overwrite(outTree.ents, byName), plots))

\* the output tree after collect_results enumerated the mesh folders as order
CollectedTree(tree, outTree, order) ==
    LET meshes == [i \in 1..Len(order) |-> CollectedFolder(outTree, MeshName(i), tree.ents[order[i]].ents)]
        byName == [n \in {MeshName(i) : i \in 1..Len(order)} |->
                      meshes[CHOOSE i \in 1..Len(order) : MeshName(i) = n]]
        plots  == IF D_plots \in DOMAIN tree.ents THEN One(D_plots, tree.ents[D_plots]) ELSE NoEnts
    IN  Tree(Overwrite(Overwrite(outTree.ents, byName), plots))

(***************************************************************************)
(* Initial filesystems.  Three families, each varying one part of the      *)
(* filesystem around a plain default.                                      *)
(***************************************************************************)
SrcNames == {D_Mesh1, D_2, D_res}

TgtNames == {D_Mesh1, D_2}

NameUniverse == {D_Mesh1, D_Mesh3, D_meshA, D_2, D_1b, D_7, D_0, D_Mes, D_MESH, D_res}

SrcNodeShapes ==
    { Dir(F_restart :> "src_r" @@ F_grid :> "src_g" @@ F_notes :> "src_n" @@ F_dat :> "src_d"),
      Dir(F_restart :> "src_r"),
      File("src_f") }

TgtNodeShapes ==
    { Dir(F_restart :> "old_r" @@ F_notes :> "old_n" @@ F_config :> "old_c"),
      Dir(NoEnts),
      File("old_f") }

BaseFiles == F_config :> File("auth") @@ F_plotpy :> File("plot_py")

SmallSubsets(S, n) == {T \in SUBSET S : Cardinality(T) <= n}

ReconcileScenarios ==
    LET srcTrees == {Absent} \cup
                    {Tree(e) : e \in UNION {[S -> SrcNodeShapes] : S \in SmallSubsets(SrcNames, MaxSrcDirs)}}
        tgtTrees == {Absent} \cup
                    {Tree(e @@ BaseFiles) : e \in UNION {[S -> TgtNodeShapes] : S \in SmallSubsets(TgtNames, MaxDirs)}}
    IN  {[v |-> s, m |-> t, o |-> Absent] : s \in srcTrees, t \in tgtTrees}

PlainFolder == Dir(F_hist :> "hist" @@ F_notes :> "note")

DiscoveryScenarios ==
    LET extras == {NoEnts, F_meshlog :> File("log")}
    IN  {[v |-> Tree(NoEnts),
          m |-> Tree([n \in S |-> PlainFolder] @@ x @@ BaseFiles),
          o |-> Absent] : S \in SmallSubsets(NameUniverse, MaxProbe), x \in extras}

CaseFolders ==
    D_Mesh3 :> Dir(F_hist :> "m3_h" @@ F_vol :> "m3_v" @@ F_notes :> "m3_n") @@
    D_Mesh1 :> Dir(F_vol :> "m1_v") @@
    D_2     :> Dir(F_hist :> "m2_h" @@ F_restart :> "m2_r") @@
    D_res   :> Dir(F_hist :> "res_h")

StaleBundle ==
    Tree(MeshName(1) :> Dir(F_hist :> "stale" @@ F_vol :> "stale") @@
         MeshName(2) :> Dir(F_vol :> "stale") @@
         MeshName(3) :> Dir(F_hist :> "stale") @@
         D_plots     :> Dir(F_notes :> "stale"))

CollectScenarios ==
    LET cfgs   == {NoEnts, F_config :> File("auth")}
        plotpy == {NoEnts, F_plotpy :> File("plot_py")}
        plots  == {NoEnts, D_plots :> Dir(F_png :> "old_plot")}
        outs   == {Absent, Tree(NoEnts), StaleBundle}
    IN  {[v |-> Tree(NoEnts),
          m |-> Tree([n \in S |-> CaseFolders[n]] @@ c @@ p @@ q),
          o |-> w] : S \in SmallSubsets(DOMAIN CaseFolders, MaxDirs),
                     c \in cfgs, p \in plotpy, q \in plots, w \in outs}

Scenarios == ReconcileScenarios \cup DiscoveryScenarios \cup CollectScenarios

(***************************************************************************)
(* The driver: main().                                                     *)
(***************************************************************************)
Event(e, a, r) == [ev |-> e, arg |-> a, ok |-> r]

NoMatrix == [rows |-> 0, cols |-> 0, titled |-> <<>>, hidden |-> {}, error |-> FALSE]

NoReadme == [written |-> FALSE, groups |-> <<>>, plots |-> <<>>]

\* no second instance of the driver
ConcIdle ==
    /\ c_main = Absent
    /\ c_out = Absent
    /\ c_pc = <<>>
    /\ c_idx = <<>>
    /\ c_folders = <<>>
    /\ c_view = <<>>
    /\ c_overlap = FALSE

\* parse_config_file not called
CfgIdle ==
    /\ cfg_exists = FALSE
    /\ cfg_text = <<>>
    /\ options = <<>>
    /\ cfg_pc = "idle"
    /\ cfg_exit = -1

\* generate_combined_plots.py not started
AggIdle ==
    /\ case_code = <<>>
    /\ input_dir = <<>>
    /\ plot_folders = <<>>
    /\ output_dir = [exists |-> FALSE, files |-> <<>>]
    /\ readme = NoReadme
    /\ matrix = NoMatrix
    /\ agg_pc = "idle"
    /\ agg_exit = -1

Init ==
    /\ \E sc \in Scenarios : vandv = sc.v /\ main = sc.m /\ out = sc.o /\ fs0 = sc
    /\ pc = "step1"
    /\ mesh_folders = <<>>
    /\ idx = 1
    /\ simulation_success = TRUE
    /\ proc = "none"
    /\ exit_code = -1
    /\ log = <<>>
    /\ collected = <<>>
    /\ external = 0
    /\ returncode = -1
    /\ AggIdle
    /\ CfgIdle
    /\ ConcIdle

\* the runs that start with Config.cfg and Plot.py in place and without an
\* output tree or earlier plots
FairScenarios ==
    {sc \in CollectScenarios : /\ ~sc.o.exists
                               /\ D_plots \notin DOMAIN sc.m.ents
                               /\ F_config \in DOMAIN sc.m.ents
                               /\ F_plotpy \in DOMAIN sc.m.ents}

FairInit ==
    /\ \E sc \in FairScenarios : vandv = sc.v /\ main = sc.m /\ out = sc.o /\ fs0 = sc
    /\ pc = "step1"
    /\ mesh_folders = <<>>
    /\ idx = 1
    /\ simulation_success = TRUE
    /\ proc = "none"
    /\ exit_code = -1
    /\ log = <<>>
    /\ collected = <<>>
    /\ external = 0
    /\ returncode = -1
    /\ AggIdle
    /\ CfgIdle
    /\ ConcIdle

\* Step 1: copy_files_from_vandv and the "return 1" that follows its failure
Reconcile ==
    /\ pc = "step1"
    /\ IF ReconcileOk(vandv, main)
       THEN /\ main' \in ReconciledTrees(vandv, main)
            /\ pc' = "step2"
            /\ exit_code' = exit_code
            /\ log' = Append(log, Event("reconcile", <<>>, TRUE))
       ELSE /\ main' = main
            /\ pc' = "done"
            /\ exit_code' = 1
            /\ log' = Append(log, Event("reconcile", <<>>, FALSE))
    /\ UNCHANGED <<vandv, out, mesh_folders, idx, simulation_success, proc, collected, external, fs0, returncode, aggvars, cfgvars, concvars>>

\* Step 2 without the "return 1": a missing Config.cfg is reported and the
\* run goes on
DistributeNonFatal ==
    /\ pc = "step2"
    /\ \E order \in Perms(DriverMeshFolders(main)) :
         /\ mesh_folders' = order
         /\ main' = IF ConfigExists(main) THEN DistributedTree(main, Range(order)) ELSE main
         /\ log' = Append(log, Event("distribute", <<>>, ConfigExists(main)))
    /\ pc' = "step3"
    /\ exit_code' = exit_code
    /\ idx' = 1
    /\ simulation_success' = TRUE
    /\ UNCHANGED <<vandv, out, proc, collected, external, fs0, returncode, aggvars, cfgvars, concvars>>

\* Step 2: the mesh-folder comprehension, copy_config_to_meshes and the
\* "return 1" that follows its failure
Distribute ==
    /\ pc = "step2"
    /\ \E order \in Perms(DriverMeshFolders(main)) :
         /\ mesh_folders' = order
         /\ IF ConfigExists(main)
            THEN /\ main' = DistributedTree(main, Range(order))
                 /\ pc' = "step3"
                 /\ exit_code' = exit_code
                 /\ log' = Append(log, Event("distribute", <<>>, TRUE))
            ELSE /\ main' = main
                 /\ pc' = "done"
                 /\ exit_code' = 1
                 /\ log' = Append(log, Event("distribute", <<>>, FALSE))
    /\ idx' = 1
    /\ simulation_success' = TRUE
    /\ UNCHANGED <<vandv, out, proc, collected, external, fs0, returncode, aggvars, cfgvars, concvars>>

\* the solver started with subprocess.Popen and not waited for
SimulationStartDetached ==
    /\ pc = "step3"
    /\ idx <= Len(mesh_folders)
    /\ LET m == mesh_folders[idx] IN
         IF F_config \in DOMAIN main.ents[m].ents
         THEN log' = log \o <<Event("attempt", m, TRUE), Event("invoke", m, TRUE)>>
         ELSE log' = log \o <<Event("attempt", m, TRUE), Event("result", m, FALSE)>>
    /\ idx' = idx + 1
    /\ UNCHANGED <<pc, proc, simulation_success>>
    /\ UNCHANGED <<vandv, main, out, mesh_folders, exit_code, collected, external, fs0, returncode, aggvars, cfgvars, concvars>>

\* one iteration of the Step 3 loop up to the point where run_su2_simulation
\* either returns False for a missing Config.cfg or has started SU2_CFD
SimulationStart ==
    /\ pc = "step3"
    /\ idx <= Len(mesh_folders)
    /\ LET m == mesh_folders[idx] IN
         IF F_config \in DOMAIN main.ents[m].ents
         THEN /\ pc' = "solving"
              /\ proc' = "running"
              /\ log' = log \o <<Event("attempt", m, TRUE), Event("invoke", m, TRUE)>>
              /\ UNCHANGED <<idx, simulation_success>>
         ELSE /\ pc' = "step3"
              /\ proc' = proc
              /\ log' = log \o <<Event("attempt", m, TRUE), Event("result", m, FALSE)>>
              /\ idx' = idx + 1
              /\ simulation_success' = FALSE
    /\ UNCHANGED <<vandv, main, out, mesh_folders, exit_code, collected, external, fs0, returncode, aggvars, cfgvars, concvars>>

\* the exit statuses of an external process: zero, and one non-zero status
ExitStatuses == {0, 1}

\* run_command: subprocess.run(check=True) raises CalledProcessError on a
\* non-zero status and run_command then returns None, else the stdout
RunCommandResult(rc) == IF rc = 0 THEN "stdout" ELSE "None"

\* a solver result that counts every returned value as a success
SimulationResultAlways(result) == result \in {"stdout", "None"}

\* run_su2_simulation: "return result is not None"
SimulationResult(result) == result # "None"

\* the solver loop with a "break" on the first failed simulation
SimulationExitAbort ==
    /\ pc = "solving"
    /\ proc = "running"
    /\ \E rc \in ExitStatuses :
         LET ok == SimulationResult(RunCommandResult(rc)) IN
         /\ returncode' = rc
         /\ log' = Append(log, Event("result", mesh_folders[idx], ok))
         /\ simulation_success' = (IF ok THEN simulation_success ELSE FALSE)
         /\ idx' = IF ok THEN idx + 1 ELSE Len(mesh_folders) + 1
    /\ pc' = "step3"
    /\ proc' = "none"
    /\ UNCHANGED <<vandv, main, out, mesh_folders, exit_code, collected, external, fs0, aggvars, cfgvars, concvars>>

\* SU2_CFD exits: run_command returns stdout or None, run_su2_simulation
\* returns True or False, and the loop body updates simulation_success
SimulationExit ==
    /\ pc = "solving"
    /\ proc = "running"
    /\ \E rc \in ExitStatuses :
         LET ok == SimulationResult(RunCommandResult(rc)) IN
         /\ returncode' = rc
         /\ log' = Append(log, Event("result", mesh_folders[idx], ok))
         /\ simulation_success' = (IF ok THEN simulation_success ELSE FALSE)
    /\ idx' = idx + 1
    /\ pc' = "step3"
    /\ proc' = "none"
    /\ UNCHANGED <<vandv, main, out, mesh_folders, exit_code, collected, external, fs0, aggvars, cfgvars, concvars>>

\* the rendering pass started without waiting for the end of the solver loop
PlotStartEarly ==
    /\ pc = "step3"
    /\ main' = IF F_plotpy \in DOMAIN main.ents THEN main
               ELSE Tree(Overwrite(main.ents, One(F_plotpy, File("mock_plot_py"))))
    /\ pc' = "plotting"
    /\ proc' = "running"
    /\ log' = Append(log, Event("plot_start", <<>>, TRUE))
    /\ UNCHANGED <<vandv, out, mesh_folders, idx, simulation_success, exit_code, collected, external, fs0, returncode, aggvars, cfgvars, concvars>>

\* Step 4 up to the start of "python3 Plot.py": run_plot_script writes the
\* mock Plot.py when the case has none
PlotStart ==
    /\ pc = "step3"
    /\ idx > Len(mesh_folders)
    /\ main' = IF F_plotpy \in DOMAIN main.ents THEN main
               ELSE Tree(Overwrite(main.ents, One(F_plotpy, File("mock_plot_py"))))
    /\ pc' = "plotting"
    /\ proc' = "running"
    /\ log' = Append(log, Event("plot_start", <<>>, TRUE))
    /\ UNCHANGED <<vandv, out, mesh_folders, idx, simulation_success, exit_code, collected, external, fs0, returncode, aggvars, cfgvars, concvars>>

\* Step 4 with a "return 1" after a failed rendering pass
PlotExitFatal ==
    /\ pc = "plotting"
    /\ proc = "running"
    /\ \E ok \in BOOLEAN :
         /\ log' = Append(log, Event("plot_end", <<>>, ok))
         /\ main' = IF ok
                    THEN LET prior == IF D_plots \in DOMAIN main.ents THEN main.ents[D_plots].ents ELSE NoEnts
                         IN  Tree(Overwrite(main.ents, One(D_plots, Dir(Overwrite(prior, One(F_png, "plot"))))))
                    ELSE main
         /\ pc' = IF ok THEN "step5" ELSE "done"
         /\ exit_code' = IF ok THEN exit_code ELSE 1
    /\ proc' = "none"
    /\ UNCHANGED <<vandv, out, mesh_folders, idx, simulation_success, collected, external, fs0, returncode, aggvars, cfgvars, concvars>>

\* Plot.py exits; a successful run leaves its images in the plots directory
PlotExit ==
    /\ pc = "plotting"
    /\ proc = "running"
    /\ \E ok \in BOOLEAN :
         /\ log' = Append(log, Event("plot_end", <<>>, ok))
         /\ main' = IF ok
                    THEN LET prior == IF D_plots \in DOMAIN main.ents THEN main.ents[D_plots].ents ELSE NoEnts
                         IN  Tree(Overwrite(main.ents, One(D_plots, Dir(Overwrite(prior, One(F_png, "plot"))))))
                    ELSE main
    /\ pc' = "step5"
    /\ proc' = "none"
    /\ UNCHANGED <<vandv, out, mesh_folders, idx, simulation_success, exit_code, collected, external, fs0, returncode, aggvars, cfgvars, concvars>>

\* Step 5 run a second time before main returns
CollectRepeated ==
    /\ pc = "step5"
    /\ \E order \in Perms(CollectorMeshFolders(main)) :
         /\ out' = CollectedTree(main, out, order)
         /\ collected' = order
    /\ log' = Append(log, Event("collect", <<>>, TRUE))
    /\ LET again == \E i \in DOMAIN log : log[i].ev = "collect" IN
         /\ exit_code' = IF again THEN 0 ELSE exit_code
         /\ pc' = IF again THEN "done" ELSE "step5"
    /\ UNCHANGED <<vandv, main, mesh_folders, idx, simulation_success, proc, external, fs0, returncode, aggvars, cfgvars, concvars>>

\* Step 5: collect_results, then "return 0"
Collect ==
    /\ pc = "step5"
    /\ \E order \in Perms(CollectorMeshFolders(main)) :
         /\ out' = CollectedTree(main, out, order)
         /\ collected' = order
    /\ log' = Append(log, Event("collect", <<>>, TRUE))
    /\ exit_code' = 0
    /\ pc' = "done"
    /\ UNCHANGED <<vandv, main, mesh_folders, idx, simulation_success, proc, external, fs0, returncode, aggvars, cfgvars, concvars>>

\* the environment deletes the Config.cfg of the mesh folder the solver loop
\* is about to run
EnvRemoveConfig ==
    /\ pc = "step3"
    /\ external < MaxExternal
    /\ idx <= Len(mesh_folders)
    /\ LET m == mesh_folders[idx] IN
         /\ F_config \in DOMAIN main.ents[m].ents
         /\ main' = Tree(Overwrite(main.ents,
                      One(m, Dir([f \in (DOMAIN main.ents[m].ents) \ {F_config} |-> main.ents[m].ents[f]]))))
    /\ external' = external + 1
    /\ UNCHANGED <<vandv, out, pc, mesh_folders, idx, simulation_success, proc, exit_code, log, collected, fs0, returncode, aggvars, cfgvars, concvars>>

Next ==
    \/ Reconcile
    \/ Distribute
    \/ SimulationStart
    \/ SimulationExit
    \/ PlotStart
    \/ PlotExit
    \/ Collect
    \/ EnvRemoveConfig

Spec == Init /\ [][Next]_vars

\* Spec lets a started SU2_CFD or Plot.py run forever (subprocess.run has no
\* timeout).  FairSpec is the run in which every external process returns and
\* the driver takes its next step whenever it has one.
FairSpec == FairInit /\ [][Next]_vars /\ WF_vars(Next)

(***************************************************************************)
(* PlotAggregator: generate_combined_plots.py.                             *)
(*                                                                         *)
(* The input directory is a function from entry names to "is a directory". *)
(* plot_folders is the dict of dicts of parse_plot_folders as a sequence   *)
(* in insertion order: one record per turbulence model, holding the        *)
(* sequence of its (configuration, folder) items.                          *)
(***************************************************************************)
MaxInputDirs == 3

Us == <<"_">>

C_A == <<"A">>
C_AB == <<"A", "_", "B">>
C_B == <<"B">>

M_S == <<"S">>
M_T == <<"T">>
M_SN == <<"S", "_", "N">>

K_1 == <<"1">>
K_2 == <<"2">>
K_1x == <<"1", "_", "x">>

\* the folder name "<case_code>_<turb_model>_<configuration>"
Build(c, m, k) == c \o Us \o m \o Us \o k

CaseCodes == {C_A, C_AB, C_B}

TurbModels == {M_S, M_T, M_SN}

Configurations == {K_1, K_2, K_1x}

\* the case codes given as --case-code
FilterCodes == {C_A, C_AB}

\* the entries an input directory is drawn from: result-bundle folders of
\* three cases, a folder with a model but no configuration, a folder whose
\* name only starts like the case code, and two plain files
BundleNames ==
    {Build(C_A, m, k) : m \in {M_S, M_T}, k \in Configurations}
    \cup {Build(C_A, M_SN, K_1), Build(C_AB, M_S, K_1), Build(C_AB, M_T, K_2), Build(C_B, M_S, K_1)}

OtherDirNames == {C_A \o Us \o M_S, <<"A", "S", "_", "1">>}

PlainFileNames == {Build(C_A, M_S, <<"3">>), <<"n", ".", "t", "x", "t">>}

InputDirs ==
    {[n \in ds \cup fs |-> n \in ds] :
        ds \in {x \in SUBSET (BundleNames \cup OtherDirNames) : Cardinality(x) <= MaxInputDirs},
        fs \in {{}} \cup {{f} : f \in PlainFileNames}}

RECURSIVE Split(_, _)
\* str.split(sep) for a one-character separator
Split(s, sep) ==
    IF \A i \in 1..Len(s) : s[i] # sep
    THEN <<s>>
    ELSE LET p == CHOOSE i \in 1..Len(s) : s[i] = sep /\ \A j \in 1..(i - 1) : s[j] # sep
         IN  <<SubSeq(s, 1, p - 1)>> \o Split(SubSeq(s, p + 1, Len(s)), sep)

RECURSIVE Join(_, _)
\* sep.join(parts)
Join(parts, sep) ==
    IF Len(parts) = 0 THEN <<>>
    ELSE IF Len(parts) = 1 THEN parts[1]
    ELSE parts[1] \o <<sep>> \o Join(Tail(parts), sep)

\* parts[1]
TurbModelOf(parts) == parts[2]

\* a configuration name cut at its first underscore
ConfigOfThirdPart(parts) == parts[3]

\* '_'.join(parts[2:])
ConfigOf(parts) == Join(SubSeq(parts, 3, Len(parts)), "_")

\* folder.is_dir() and folder.name.startswith(f"{case_code}_"), then
\* len(parts) >= 3
Matches(dir, name, code) ==
    /\ dir[name]
    /\ StartsWith(name, code \o Us)
    /\ Len(Split(name, "_")) >= 3

\* the dict items of one model after configs[config] = folder
PutConfig(configs, config, folder) ==
    IF \E j \in DOMAIN configs : configs[j].config = config
    THEN [j \in DOMAIN configs |->
             IF configs[j].config = config THEN [config |-> config, folder |-> folder] ELSE configs[j]]
    ELSE Append(configs, [config |-> config, folder |-> folder])

\* the insertion that starts the model's dict afresh for every folder
PutFolderFresh(pf, name) ==
    LET parts == Split(name, "_")
        model == TurbModelOf(parts)
        item  == <<[config |-> ConfigOf(parts), folder |-> name]>>
    IN  IF \E i \in DOMAIN pf : pf[i].model = model
        THEN [i \in DOMAIN pf |-> IF pf[i].model = model THEN [model |-> model, configs |-> item] ELSE pf[i]]
        ELSE Append(pf, [model |-> model, configs |-> item])

\* "if turb_model not in plot_folders: plot_folders[turb_model] = {}" and
\* "plot_folders[turb_model][config] = folder"
PutFolder(pf, name) ==
    LET parts == Split(name, "_")
        model == TurbModelOf(parts)
        config == ConfigOf(parts)
    IN  IF \E i \in DOMAIN pf : pf[i].model = model
        THEN [i \in DOMAIN pf |->
                 IF pf[i].model = model
                 THEN [model |-> model, configs |-> PutConfig(pf[i].configs, config, name)]
                 ELSE pf[i]]
        ELSE Append(pf, [model |-> model, configs |-> <<[config |-> config, folder |-> name]>>])

RECURSIVE ParsePlotFolders(_, _, _, _)
\* parse_plot_folders over the entries in the order iterdir() yields them
ParsePlotFolders(pf, order, dir, code) ==
    IF order = <<>> THEN pf
    ELSE ParsePlotFolders(IF Matches(dir, Head(order), code) THEN PutFolder(pf, Head(order)) ELSE pf,
                          Tail(order), dir, code)

\* an Axes object at grid position <<i, j>>
Ax(i, j) == [kind |-> "ax", id |-> <<i, j>>, items |-> <<>>]

\* an ndarray or a list
Arr(s) == [kind |-> "seq", id |-> <<>>, items |-> s]

\* what a failed subscript or iteration leaves (TypeError, IndexError)
Raised == [kind |-> "error", id |-> <<>>, items |-> <<>>]

\* plt.subplots(nrows, ncols) with squeeze=True: one Axes for a 1x1 grid, a
\* one-dimensional array for one row or one column, else a 2-D array
Subplots(nrows, ncols) ==
    IF nrows = 1 /\ ncols = 1 THEN Ax(1, 1)
    ELSE IF nrows = 1 THEN Arr([j \in 1..ncols |-> Ax(1, j)])
    ELSE IF ncols = 1 THEN Arr([i \in 1..nrows |-> Ax(i, 1)])
    ELSE Arr([i \in 1..nrows |-> Arr([j \in 1..ncols |-> Ax(i, j)])])

\* axes[i] (0-based in the code, 1-based here)
At(x, i) == IF x.kind = "seq" /\ i \in DOMAIN x.items THEN x.items[i] ELSE Raised

\* the axes with only the one-row case wrapped
WrapAxesRowOnly(axes, nrows, ncols) ==
    IF nrows = 1 THEN Arr(<<axes>>) ELSE axes

\* "if len(turb_models) == 1: axes = [axes]" and
\* "if max_configs == 1: axes = [[ax] for ax in axes]"
WrapAxes(axes, nrows, ncols) ==
    LET a1 == IF nrows = 1 THEN Arr(<<axes>>) ELSE axes
    IN  IF ncols = 1
        THEN IF a1.kind = "seq" THEN Arr([i \in DOMAIN a1.items |-> Arr(<<a1.items[i]>>)]) ELSE Raised
        ELSE a1

Max(S) == CHOOSE x \in S : \A y \in S : y <= x

\* create_configuration_matrix: the grid, the title of every plotted panel
\* and the panels hidden by set_visible(False)
ConfigurationMatrix(pf) ==
    LET nrows == Len(pf)
        ncols == Max({Len(pf[i].configs) : i \in DOMAIN pf})
        axes  == WrapAxes(Subplots(nrows, ncols), nrows, ncols)
        cell(i, j) == At(At(axes, i), j)
        drawn  == {<<i, j>> \in (1..nrows) \X (1..ncols) : j <= Len(pf[i].configs)}
        unused == {<<i, j>> \in (1..nrows) \X (1..ncols) : j > Len(pf[i].configs)}
    IN  IF \E c \in drawn \cup unused : cell(c[1], c[2]).kind # "ax"
        THEN [rows |-> nrows, cols |-> ncols, titled |-> <<>>, hidden |-> {}, error |-> TRUE]
        ELSE [rows |-> nrows, cols |-> ncols,
              titled |-> [id \in {cell(c[1], c[2]).id : c \in drawn} |->
                            LET c == CHOOSE d \in drawn : cell(d[1], d[2]).id = id
                            IN  <<pf[c[1]].model, pf[c[1]].configs[c[2]].config>>],
              hidden |-> {cell(c[1], c[2]).id : c \in unused},
              error |-> FALSE]

\* an index that lists the models without their configurations
IndexContentModelsOnly(pf) ==
    [written |-> TRUE,
     groups |-> [i \in DOMAIN pf |-> [model |-> pf[i].model, configs |-> <<>>]],
     plots |-> <<"combined_convergence.png", "combined_validation.png",
                 "comparison_summary.png", "configuration_matrix.png">>]

\* create_index_file: "### {turb_model} Model:" with one "- {config}" line
\* per configuration, then the four plot lines
IndexContent(pf) ==
    [written |-> TRUE,
     groups |-> [i \in DOMAIN pf |->
                   [model |-> pf[i].model,
                    configs |-> [j \in DOMAIN pf[i].configs |-> pf[i].configs[j].config]]],
     plots |-> <<"combined_convergence.png", "combined_validation.png",
                 "comparison_summary.png", "configuration_matrix.png">>]

\* plt.savefig(output_dir / name) and open(output_dir / name, 'w')
WriteFile(dir, name) ==
    [exists |-> dir.exists,
     files |-> IF name \in Range(dir.files) THEN dir.files ELSE Append(dir.files, name)]

\* Automation.py not running
DrvIdle ==
    /\ vandv = Absent /\ main = Absent /\ out = Absent
    /\ fs0 = [v |-> Absent, m |-> Absent, o |-> Absent]
    /\ pc = "idle"
    /\ mesh_folders = <<>>
    /\ idx = 1
    /\ simulation_success = TRUE
    /\ proc = "none"
    /\ exit_code = -1
    /\ log = <<>>
    /\ collected = <<>>
    /\ external = 0
    /\ returncode = -1

\* the state at the call of main(): the arguments and the two directories
AggInit ==
    /\ DrvIdle
    /\ CfgIdle
    /\ ConcIdle
    /\ case_code \in FilterCodes
    /\ input_dir \in InputDirs
    /\ output_dir \in {[exists |-> FALSE, files |-> <<>>], [exists |-> TRUE, files |-> <<>>]}
    /\ plot_folders = <<>>
    /\ readme = NoReadme
    /\ matrix = NoMatrix
    /\ agg_pc = "main"
    /\ agg_exit = -1

\* main down to the "return 1" of an empty grouping: output_dir.mkdir,
\* parse_plot_folders, "if not plot_folders"
AggParse ==
    /\ agg_pc = "main"
    /\ output_dir' = [exists |-> TRUE, files |-> output_dir.files]
    /\ \E order \in Perms(DOMAIN input_dir) :
          plot_folders' = ParsePlotFolders(<<>>, order, input_dir, case_code)
    /\ IF plot_folders' = <<>>
       THEN agg_pc' = "done" /\ agg_exit' = 1
       ELSE agg_pc' = "convergence" /\ agg_exit' = agg_exit
    /\ UNCHANGED <<case_code, input_dir, readme, matrix, drvvars, cfgvars, concvars>>

\* create_combined_convergence_plot
AggConvergence ==
    /\ agg_pc = "convergence"
    /\ output_dir' = WriteFile(output_dir, "combined_convergence.png")
    /\ agg_pc' = "validation"
    /\ UNCHANGED <<case_code, input_dir, plot_folders, readme, matrix, agg_exit, drvvars, cfgvars, concvars>>

\* create_combined_validation_plot
AggValidation ==
    /\ agg_pc = "validation"
    /\ output_dir' = WriteFile(output_dir, "combined_validation.png")
    /\ agg_pc' = "summary"
    /\ UNCHANGED <<case_code, input_dir, plot_folders, readme, matrix, agg_exit, drvvars, cfgvars, concvars>>

\* create_comparison_summary
AggSummary ==
    /\ agg_pc = "summary"
    /\ output_dir' = WriteFile(output_dir, "comparison_summary.png")
    /\ agg_pc' = "matrix"
    /\ UNCHANGED <<case_code, input_dir, plot_folders, readme, matrix, agg_exit, drvvars, cfgvars, concvars>>

\* create_configuration_matrix; an exception in it ends the process with
\* status 1 before anything is saved
AggMatrix ==
    /\ agg_pc = "matrix"
    /\ matrix' = ConfigurationMatrix(plot_folders)
    /\ IF matrix'.error
       THEN output_dir' = output_dir /\ agg_pc' = "done" /\ agg_exit' = 1
       ELSE /\ output_dir' = WriteFile(output_dir, "configuration_matrix.png")
            /\ agg_pc' = "index"
            /\ agg_exit' = agg_exit
    /\ UNCHANGED <<case_code, input_dir, plot_folders, readme, drvvars, cfgvars, concvars>>

\* create_index_file and "return 0"
AggIndex ==
    /\ agg_pc = "index"
    /\ readme' = IndexContent(plot_folders)
    /\ output_dir' = WriteFile(output_dir, "README.md")
    /\ agg_pc' = "done"
    /\ agg_exit' = 0
    /\ UNCHANGED <<case_code, input_dir, plot_folders, matrix, drvvars, cfgvars, concvars>>

AggNext ==
    \/ AggParse
    \/ AggConvergence
    \/ AggValidation
    \/ AggSummary
    \/ AggMatrix
    \/ AggIndex

AggSpec == AggInit /\ [][AggNext]_vars

(***************************************************************************)
(* Configuration parsing: parse_config_file of                             *)
(* .github/scripts/generate_dynamic_workflow.py.                           *)
(*                                                                         *)
(* The file content is a sequence of characters; options is the dict the   *)
(* function returns, a function from keys to values.                       *)
(***************************************************************************)
MaxText == 5

\* the characters the file contents are built from
CfgAlphabet == {"A", "1", "=", "%", "#", " ", "\n"}

\* the characters str.strip() removes
Whitespace == {" ", "\t", "\r", "\n"}

ExampleText == <<"%", " ", "c", "o", "m", "m", "e", "n", "t", "\n", "A", "=", "1", "\n", "B", " ", "=", " ", "t", "w", "o", " ", "\n", "#", "a", "l", "s", "o", " ", "c", "o", "m", "m", "e", "n", "t">>

TabbedText == <<"K", "\t", "=", "\t", "v", "=", "w", "\r", "\n", " ", "=", "x", "\n", "K", "=", "y", "=", "\n">>

\* every content of up to MaxText characters, and two longer files
CfgTexts == UNION {[1..n -> CfgAlphabet] : n \in 0..MaxText} \cup {ExampleText, TabbedText}

\* str.strip()
Strip(s) ==
    LET keep == {i \in 1..Len(s) : s[i] \notin Whitespace}
    IN  IF keep = {} THEN <<>>
        ELSE SubSeq(s, CHOOSE a \in keep : \A b \in keep : a <= b,
                       CHOOSE a \in keep : \A b \in keep : b <= a)

\* line.rsplit('=', 1): the split at the last '='
SplitAtLastEq(line) ==
    LET p == CHOOSE i \in 1..Len(line) : line[i] = "=" /\ \A j \in (i + 1)..Len(line) : line[j] # "="
    IN  <<SubSeq(line, 1, p - 1), SubSeq(line, p + 1, Len(line))>>

\* line.split('=', 1)
SplitAtFirstEq(line) ==
    LET p == CHOOSE i \in 1..Len(line) : line[i] = "=" /\ \A j \in 1..(i - 1) : line[j] # "="
    IN  <<SubSeq(line, 1, p - 1), SubSeq(line, p + 1, Len(line))>>

\* the body of the loop over the lines
ParseLine(opts, raw) ==
    LET line == Strip(raw) IN
    IF /\ line # <<>>
       /\ ~StartsWith(line, <<"%">>)
       /\ ~StartsWith(line, <<"#">>)
       /\ "=" \in Range(line)
    THEN LET kv    == SplitAtFirstEq(line)
             key   == Strip(kv[1])
             value == Strip(kv[2])
         IN  IF key # <<>> THEN Overwrite(opts, One(key, value)) ELSE opts
    ELSE opts

RECURSIVE ParseLines(_, _)
\* "for line in lines" over content.split('\n')
ParseLines(opts, lines) ==
    IF lines = <<>> THEN opts ELSE ParseLines(ParseLine(opts, Head(lines)), Tail(lines))

\* the state at the call of parse_config_file(config_path)
CfgInit ==
    /\ DrvIdle
    /\ AggIdle
    /\ ConcIdle
    /\ cfg_exists \in BOOLEAN
    /\ cfg_text \in CfgTexts
    /\ (~cfg_exists => cfg_text = <<>>)
    /\ options = <<>>
    /\ cfg_pc = "call"
    /\ cfg_exit = -1

\* parse_config_file: the returned dict, or sys.exit(1) on FileNotFoundError
CfgParse ==
    /\ cfg_pc = "call"
    /\ IF cfg_exists
       THEN /\ options' = ParseLines(<<>>, Split(cfg_text, "\n"))
            /\ cfg_pc' = "returned"
            /\ cfg_exit' = cfg_exit
       ELSE /\ options' = options
            /\ cfg_pc' = "exited"
            /\ cfg_exit' = 1
    /\ UNCHANGED <<cfg_exists, cfg_text, drvvars, aggvars, concvars>>

CfgNext == CfgParse

CfgSpec == CfgInit /\ [][CfgNext]_vars

(***************************************************************************)
(* Two driver instances on the same case directory and output path.        *)
(*                                                                         *)
(* Each instance runs main() of Automation.py; the case tree c_main and    *)
(* the output tree c_out are shared, the position, the loop index and the  *)
(* mesh-folder list are the instance's own.  A solver run started by       *)
(* instance i leaves an h.csv marked with i in its mesh folder.  c_view[i] *)
(* is the output tree as instance i left it, c_overlap records that an     *)
(* instance took a step while the other was between its start and its end. *)
(***************************************************************************)
Instances == {1, 2}

ConcFolders == {D_Mesh1, D_2}

\* the case subtree of the VandV repository
ConcSource == Tree([n \in ConcFolders |-> Dir(F_restart :> "src_r" @@ F_grid :> "src_g")])

\* the case directory of the main repository
ConcCase ==
    Tree(Overwrite(BaseFiles, [n \in ConcFolders |-> Dir(F_restart :> "old_r")]))

\* the content of the history file a solver run of instance i writes
RunOutput(i) == IF i = 1 THEN "run1" ELSE "run2"

ConcInit ==
    /\ DrvIdle
    /\ AggIdle
    /\ CfgIdle
    /\ c_main = ConcCase
    /\ c_out = Absent
    /\ c_pc = [i \in Instances |-> "step1"]
    /\ c_idx = [i \in Instances |-> 1]
    /\ c_folders = [i \in Instances |-> <<>>]
    /\ c_view = [i \in Instances |-> Absent]
    /\ c_overlap = FALSE

\* instance i takes a step: no lock is asked for, whatever the other does
Stepped(i) ==
    c_overlap' = (c_overlap \/ \E j \in Instances \ {i} : c_pc[j] \notin {"step1", "done"})

\* Step 1 of instance i
CReconcile(i) ==
    /\ c_pc[i] = "step1"
    /\ IF ReconcileOk(ConcSource, c_main)
       THEN /\ c_main' \in ReconciledTrees(ConcSource, c_main)
            /\ c_pc' = [c_pc EXCEPT ![i] = "step2"]
       ELSE /\ c_main' = c_main
            /\ c_pc' = [c_pc EXCEPT ![i] = "done"]
    /\ Stepped(i)
    /\ UNCHANGED <<c_out, c_idx, c_folders, c_view, drvvars, aggvars, cfgvars>>

\* Step 2 of instance i
CDistribute(i) ==
    /\ c_pc[i] = "step2"
    /\ \E order \in Perms(DriverMeshFolders(c_main)) :
         /\ c_folders' = [c_folders EXCEPT ![i] = order]
         /\ IF ConfigExists(c_main)
            THEN /\ c_main' = DistributedTree(c_main, Range(order))
                 /\ c_pc' = [c_pc EXCEPT ![i] = "step3"]
            ELSE /\ c_main' = c_main
                 /\ c_pc' = [c_pc EXCEPT ![i] = "done"]
    /\ c_idx' = [c_idx EXCEPT ![i] = 1]
    /\ Stepped(i)
    /\ UNCHANGED <<c_out, c_view, drvvars, aggvars, cfgvars>>

\* Step 3 of instance i: run_su2_simulation up to the start of SU2_CFD
CSimulationStart(i) ==
    /\ c_pc[i] = "step3"
    /\ c_idx[i] <= Len(c_folders[i])
    /\ IF F_config \in DOMAIN c_main.ents[c_folders[i][c_idx[i]]].ents
       THEN c_pc' = [c_pc EXCEPT ![i] = "solving"] /\ c_idx' = c_idx
       ELSE c_pc' = c_pc /\ c_idx' = [c_idx EXCEPT ![i] = c_idx[i] + 1]
    /\ Stepped(i)
    /\ UNCHANGED <<c_main, c_out, c_folders, c_view, drvvars, aggvars, cfgvars>>

\* the SU2_CFD of instance i exits, with whatever status, and has left its
\* history file in the mesh folder
CSimulationExit(i) ==
    /\ c_pc[i] = "solving"
    /\ LET m == c_folders[i][c_idx[i]] IN
         c_main' = Tree(Overwrite(c_main.ents,
                       One(m, Dir(Overwrite(c_main.ents[m].ents, One(F_hist, RunOutput(i)))))))
    /\ c_idx' = [c_idx EXCEPT ![i] = c_idx[i] + 1]
    /\ c_pc' = [c_pc EXCEPT ![i] = "step3"]
    /\ Stepped(i)
    /\ UNCHANGED <<c_out, c_folders, c_view, drvvars, aggvars, cfgvars>>

\* Step 4 of instance i: Plot.py is started
CPlotStart(i) ==
    /\ c_pc[i] = "step3"
    /\ c_idx[i] > Len(c_folders[i])
    /\ c_main' = IF F_plotpy \in DOMAIN c_main.ents THEN c_main
                 ELSE Tree(Overwrite(c_main.ents, One(F_plotpy, File("mock_plot_py"))))
    /\ c_pc' = [c_pc EXCEPT ![i] = "plotting"]
    /\ Stepped(i)
    /\ UNCHANGED <<c_out, c_idx, c_folders, c_view, drvvars, aggvars, cfgvars>>

\* the Plot.py of instance i exits
CPlotExit(i) ==
    /\ c_pc[i] = "plotting"
    /\ \E ok \in BOOLEAN :
         c_main' = IF ok
                   THEN LET prior == IF D_plots \in DOMAIN c_main.ents THEN c_main.ents[D_plots].ents ELSE NoEnts
                        IN  Tree(Overwrite(c_main.ents, One(D_plots, Dir(Overwrite(prior, One(F_png, "plot"))))))
                   ELSE c_main
    /\ c_pc' = [c_pc EXCEPT ![i] = "step5"]
    /\ Stepped(i)
    /\ UNCHANGED <<c_out, c_idx, c_folders, c_view, drvvars, aggvars, cfgvars>>

\* Step 5 of instance i and its "return 0"
CCollect(i) ==
    /\ c_pc[i] = "step5"
    /\ \E order \in Perms(CollectorMeshFolders(c_main)) :
         c_out' = CollectedTree(c_main, c_out, order)
    /\ c_view' = [c_view EXCEPT ![i] = c_out']
    /\ c_pc' = [c_pc EXCEPT ![i] = "done"]
    /\ Stepped(i)
    /\ UNCHANGED <<c_main, c_idx, c_folders, drvvars, aggvars, cfgvars>>

ConcNext ==
    \E i \in Instances :
        \/ CReconcile(i)
        \/ CDistribute(i)
        \/ CSimulationStart(i)
        \/ CSimulationExit(i)
        \/ CPlotStart(i)
        \/ CPlotExit(i)
        \/ CCollect(i)

ConcSpec == ConcInit /\ [][ConcNext]_vars

(***************************************************************************)
(* Properties.                                                             *)
(***************************************************************************)
Kinds(e) == {i \in DOMAIN log : log[i].ev = e}

Happened(e) == Kinds(e) # {}

Failed(e) == \E i \in Kinds(e) : ~log[i].ok

Succeeded(e) == \E i \in Kinds(e) : log[i].ok

IsAttempt(x) == x.ev = "attempt"

\* the folders run_su2_simulation was called on, in call order
Attempts == LET sel == SelectSeq(log, IsAttempt) IN [i \in 1..Len(sel) |-> sel[i].arg]

\* the solver loop of this run has been left
LoopFinished == Succeeded("distribute") /\ pc \in {"plotting", "step5", "done"}

\* C1: the folders attempted so far are the first folders of the discovered
\* list, in order and whatever their results were; between two iterations the
\* next folder can always be attempted; and once the solver loop is left every
\* discovered mesh folder has been attempted.
SolverIsolation ==
    /\ Len(Attempts) <= Len(mesh_folders)
    /\ \A i \in 1..Len(Attempts) : Attempts[i] = mesh_folders[i]
    /\ (pc = "step3" /\ Len(Attempts) < Len(mesh_folders)) => idx = Len(Attempts) + 1
    /\ LoopFinished => Attempts = mesh_folders

\* a finished loop over three folders whose first simulation exited non-zero,
\* whose second folder had lost its Config.cfg, and whose third was attempted
SolverIsolationWitness ==
    /\ LoopFinished
    /\ Len(mesh_folders) = 3
    /\ \E i, j \in Kinds("result") :
         /\ log[i].arg = mesh_folders[1] /\ ~log[i].ok
         /\ log[j].arg = mesh_folders[2] /\ ~log[j].ok
         /\ \A k \in Kinds("invoke") : log[k].arg # mesh_folders[2]
    /\ \E k \in Kinds("attempt") : log[k].arg = mesh_folders[3]

\* C2: a failed FileReconciler or ConfigDistributor ends the run with status 1
\* and without any solver attempt, rendering pass or collection; and the two
\* fail exactly when their inputs are missing.
FatalPrecondition ==
    /\ (Failed("reconcile") \/ Failed("distribute")) =>
          /\ pc = "done" /\ exit_code = 1 /\ proc = "none"
          /\ ~Happened("attempt") /\ ~Happened("invoke")
          /\ ~Happened("plot_start") /\ ~Happened("collect")
          /\ out = fs0.o
    /\ (Happened("reconcile") /\ (~fs0.v.exists \/ ~fs0.m.exists)) => Failed("reconcile")
    /\ (Happened("distribute") /\ F_config \notin DOMAIN fs0.m.ents) => Failed("distribute")

\* the run stopped at a missing Config.cfg although mesh folders were found
FatalPreconditionWitness ==
    /\ Failed("distribute")
    /\ Len(mesh_folders) >= 1
    /\ pc = "done"

\* C3: the exit status is 0 only if no stage failed, and it is non-zero
\* whenever a staging step, a solver invocation or the rendering pass failed.
FinalStatusSummarizesFailures ==
    pc = "done" => (exit_code = 0 <=> \A i \in DOMAIN log : log[i].ok)

\* C4: once FileReconciler and ConfigDistributor have succeeded, collection is
\* eventually attempted, whatever the exit statuses of the solver runs and of
\* the rendering pass are.
CollectionAlwaysAttempted == Succeeded("distribute") ~> Happened("collect")

\* collection ran after a failed simulation and a failed rendering pass
CollectionAlwaysAttemptedWitness ==
    /\ Happened("collect")
    /\ Failed("result")
    /\ Failed("plot_end")
    /\ Len(collected) >= 1

EventRank(e) ==
    CASE e = "reconcile" -> 1
      [] e = "distribute" -> 2
      [] e \in {"attempt", "invoke", "result"} -> 3
      [] e \in {"plot_start", "plot_end"} -> 4
      [] e = "collect" -> 5

\* C5: the stages of a run occur in the order FileReconciler,
\* ConfigDistributor, solver loop, rendering pass, ResultCollector, each of
\* the four single stages at most once; a started solver returns before
\* anything else happens; rendering starts only when every listed folder has
\* its result; collection starts only when rendering has returned.
StageOrdering ==
    /\ \A i, j \in DOMAIN log : i < j => EventRank(log[i].ev) <= EventRank(log[j].ev)
    /\ \A e \in {"reconcile", "distribute", "plot_start", "plot_end", "collect"} : Cardinality(Kinds(e)) <= 1
    /\ Happened("distribute") => Succeeded("reconcile")
    /\ Happened("attempt") => Succeeded("distribute")
    /\ \A i \in Kinds("invoke") :
          i < Len(log) => (log[i+1].ev = "result" /\ log[i+1].arg = log[i].arg)
    /\ Happened("plot_start") =>
          /\ Succeeded("distribute")
          /\ Cardinality(Kinds("result")) = Len(mesh_folders)
          /\ \A m \in Range(mesh_folders) : \E i \in Kinds("result") : log[i].arg = m
    /\ \A i \in Kinds("plot_start") : i < Len(log) => log[i+1].ev = "plot_end"
    /\ Happened("collect") => Happened("plot_end")
    /\ (pc = "solving" \/ pc = "plotting") <=> proc = "running"
    /\ pc = "solving" => log[Len(log)].ev = "invoke"
    /\ pc = "plotting" => log[Len(log)].ev = "plot_start"

\* a complete run over at least two mesh folders
StageOrderingWitness ==
    /\ pc = "done"
    /\ exit_code = 0
    /\ Len(mesh_folders) >= 2
    /\ Happened("collect")

DigitChars == {"0", "1", "2", "3", "4", "5", "6", "7", "8", "9"}

ClaimedMeshName(name) ==
    \/ StartsWith(name, <<"M","e","s","h">>)
    \/ StartsWith(name, <<"m","e","s","h">>)
    \/ (Len(name) >= 1 /\ name[1] \in DigitChars)

ClaimedMeshFolders(tree) == {d \in DOMAIN tree.ents : tree.ents[d].isDir /\ ClaimedMeshName(d)}

\* C6: the folders the driver lists for distribution and solver runs, and the
\* folders ResultCollector enumerates, are exactly the directories whose name
\* starts with "Mesh", "mesh" or a digit 0-9.
MeshFolderDiscovery ==
    /\ Happened("distribute") => Range(mesh_folders) = ClaimedMeshFolders(main)
    /\ Happened("collect") => Range(collected) = ClaimedMeshFolders(main)

\* the files of the i-th enumerated folder that collect_results is to copy
Harvest(i) == ResultFiles(main.ents[collected[i]].ents)

\* C7: after collection the i-th enumerated mesh folder is found in output
\* subfolder Mesh{i} whatever its own name: the enumeration covers every mesh
\* folder once, distinct folders have distinct output subfolders, Mesh1..MeshN
\* all exist, every output subfolder that was not there before is one of
\* them (or plots), and Mesh{i} holds each result file of its folder with the
\* folder's content and nothing else that it did not hold before.
CollectorRenaming ==
    Happened("collect") =>
        LET N == Len(collected) IN
        /\ Range(collected) = CollectorMeshFolders(main)
        /\ \A i, j \in 1..N : i # j => (collected[i] # collected[j] /\ MeshName(i) # MeshName(j))
        /\ out.exists
        /\ \A i \in 1..N :
              /\ MeshName(i) \in DOMAIN out.ents
              /\ out.ents[MeshName(i)].isDir
              /\ \A f \in Harvest(i) :
                    /\ f \in DOMAIN out.ents[MeshName(i)].ents
                    /\ out.ents[MeshName(i)].ents[f] = main.ents[collected[i]].ents[f]
              /\ \A f \in (DOMAIN out.ents[MeshName(i)].ents) \ Harvest(i) :
                    /\ MeshName(i) \in DOMAIN fs0.o.ents
                    /\ f \in DOMAIN fs0.o.ents[MeshName(i)].ents
                    /\ out.ents[MeshName(i)].ents[f] = fs0.o.ents[MeshName(i)].ents[f]
        /\ \A n \in (DOMAIN out.ents) \ (DOMAIN fs0.o.ents) :
              n = D_plots \/ \E i \in 1..N : n = MeshName(i)

\* folders Mesh3, Mesh1, 2 enumerated in that order and collected as Mesh1,
\* Mesh2, Mesh3
CollectorRenamingWitness ==
    /\ Happened("collect")
    /\ collected = <<D_Mesh3, D_Mesh1, D_2>>
    /\ out.ents[MeshName(1)].ents[F_hist] = "m3_h"
    /\ out.ents[MeshName(2)].ents[F_vol] = "m1_v"
    /\ out.ents[MeshName(3)].ents[F_restart] = "m2_r"

\* C8: after collection the output tree holds only what this run collected:
\* the subfolders Mesh1..MeshN (and plots when the case has plots), each with
\* exactly the result files of its mesh folder.
FreshBundle ==
    Happened("collect") =>
        LET N == Len(collected) IN
        /\ DOMAIN out.ents = {MeshName(i) : i \in 1..N} \cup ({D_plots} \cap DOMAIN main.ents)
        /\ \A i \in 1..N : DOMAIN out.ents[MeshName(i)].ents = Harvest(i)

SourceFolders == {n \in DOMAIN fs0.v.ents : fs0.v.ents[n].isDir}

Subfolders(tree) == {n \in DOMAIN tree.ents : tree.ents[n].isDir}

\* C9: right after reconciliation, a target folder with a same-named source
\* folder holds every *.dat and *.su2 file of the source folder with the
\* source's content; for a source folder without a same-named target folder
\* nothing was created or changed; the target has the same subfolders as
\* before.
ReconcilerScope ==
    (pc = "step2" /\ Succeeded("reconcile")) =>
        /\ \A n \in SourceFolders :
              IF n \in Subfolders(fs0.m)
              THEN /\ n \in Subfolders(main)
                   /\ \A f \in RestartFiles(vandv.ents[n].ents) \cup GridFiles(vandv.ents[n].ents) :
                         /\ f \in DOMAIN main.ents[n].ents
                         /\ main.ents[n].ents[f] = vandv.ents[n].ents[f]
              ELSE /\ n \in DOMAIN main.ents <=> n \in DOMAIN fs0.m.ents
                   /\ n \in DOMAIN fs0.m.ents => main.ents[n] = fs0.m.ents[n]
        /\ Subfolders(main) = Subfolders(fs0.m)
        /\ DOMAIN main.ents = DOMAIN fs0.m.ents

\* C10: when the source or the target case subtree is missing, reconciliation
\* fails, the driver returns 1 as its status, and the three trees are as they
\* were: nothing copied, no directory created.
ReconcilerPrecondition ==
    (Happened("reconcile") /\ (~fs0.v.exists \/ ~fs0.m.exists)) =>
        /\ Failed("reconcile")
        /\ pc = "done"
        /\ exit_code = 1
        /\ vandv = fs0.v /\ main = fs0.m /\ out = fs0.o

\* reconciliation failed for a missing target although the source had folders
ReconcilerPreconditionWitness ==
    /\ Failed("reconcile")
    /\ ~fs0.m.exists
    /\ fs0.v.exists
    /\ SourceFolders # {}

\* C11: reconciling once more from the unchanged source leaves the target
\* tree exactly as the first reconciliation left it.
ReconcilerIdempotent ==
    (pc = "step2" /\ Succeeded("reconcile")) => ReconciledTrees(vandv, main) = {main}

\* the first reconciliation replaced an older restart file of a target folder
ReconcilerIdempotentWitness ==
    /\ pc = "step2"
    /\ Succeeded("reconcile")
    /\ \E n \in Subfolders(main) \cap Subfolders(fs0.m) :
          /\ F_restart \in DOMAIN fs0.m.ents[n].ents
          /\ fs0.m.ents[n].ents[F_restart] = "old_r"
          /\ main.ents[n].ents[F_restart] = "src_r"

\* C12: right after a successful distribution every listed mesh folder holds
\* a Config.cfg with the content of the authoritative file, whether it had
\* none or another one before.
DistributorPostcondition ==
    (pc = "step3" /\ idx = 1 /\ external = 0) =>
        /\ ConfigExists(main)
        /\ Range(mesh_folders) = DriverMeshFolders(main)
        /\ \A m \in Range(mesh_folders) :
              /\ F_config \in DOMAIN main.ents[m].ents
              /\ main.ents[m].ents[F_config] = main.ents[F_config].data

\* distribution replaced the older Config.cfg of one folder and gave one to a
\* folder that had none
DistributorPostconditionWitness ==
    /\ pc = "step3" /\ idx = 1 /\ external = 0
    /\ \E m, k \in Range(mesh_folders) :
          /\ F_config \in DOMAIN fs0.m.ents[m].ents
          /\ fs0.m.ents[m].ents[F_config] = "old_c"
          /\ main.ents[m].ents[F_config] = "auth"
          /\ F_config \notin DOMAIN fs0.m.ents[k].ents

\* C13 as stated: a run in which ConfigDistributor failed still goes on to its
\* later stages and so reaches collection.
DistributorFailureNonFatal ==
    (pc = "done" /\ Failed("distribute")) => Happened("collect")

\* C13 amended: ConfigDistributor fails exactly when the authoritative
\* Config.cfg is absent; the failure ends the run at once with status 1, the
\* failed distribution is the last thing the run did, and the case tree and
\* the output tree are as the reconciliation left them.
DistributorFailureAborts ==
    /\ Happened("distribute") => (Failed("distribute") <=> ~ConfigExists(main))
    /\ Failed("distribute") =>
          /\ pc = "done" /\ exit_code = 1
          /\ log[Len(log)].ev = "distribute"
          /\ main \in ReconciledTrees(fs0.v, fs0.m)
          /\ out = fs0.o
          /\ collected = <<>>

\* the run ended at a missing Config.cfg with two or more mesh folders waiting
DistributorFailureAbortsWitness ==
    /\ Failed("distribute")
    /\ Len(mesh_folders) >= 2
    /\ pc = "done" /\ exit_code = 1

\* C14: the step that attempts a mesh folder invokes the solver only when the
\* folder holds a Config.cfg and otherwise records a failed result without
\* invoking it; the step in which the solver exits records success exactly
\* when the exit status is zero.
RunnableOnlyWithConfig ==
    [][ /\ (pc = "step3" /\ Len(log') > Len(log) /\ log'[Len(log) + 1].ev = "attempt") =>
            LET m == mesh_folders[idx] IN
            /\ log'[Len(log) + 1].arg = m
            /\ Len(log') = Len(log) + 2
            /\ IF F_config \in DOMAIN main.ents[m].ents
               THEN log'[Len(log) + 2] = Event("invoke", m, TRUE) /\ pc' = "solving"
               ELSE log'[Len(log) + 2] = Event("result", m, FALSE) /\ proc' = "none"
        /\ (\E i \in DOMAIN log' : i > Len(log) /\ log'[i].ev = "invoke") => pc = "step3"
        /\ pc = "solving" =>
            /\ F_config \in DOMAIN main.ents[mesh_folders[idx]].ents
            /\ log' = Append(log, Event("result", mesh_folders[idx], returncode' = 0))
      ]_vars

\* one folder failed without a solver run, one failed in the solver with a
\* non-zero status, and one succeeded
RunnableOnlyWithConfigWitness ==
    \E i, j, k \in Kinds("result") :
        /\ log[i - 1].ev = "attempt" /\ ~log[i].ok
        /\ log[j - 1].ev = "invoke" /\ ~log[j].ok
        /\ log[k - 1].ev = "invoke" /\ log[k].ok
        /\ returncode = 0

\* C20: within one run no operation is repeated: each of the single stages is
\* logged at most once, each mesh folder is attempted, invoked and given a
\* result at most once, and a run that completed did each of them exactly once.
NoRetry ==
    /\ \A e \in {"reconcile", "distribute", "plot_start", "plot_end", "collect"} :
          Cardinality(Kinds(e)) <= 1
    /\ \A e \in {"attempt", "invoke", "result"} : \A i, j \in Kinds(e) :
          log[i].arg = log[j].arg => i = j
    /\ (pc = "done" /\ exit_code = 0) =>
          /\ \A e \in {"reconcile", "distribute", "plot_start", "plot_end", "collect"} :
                Cardinality(Kinds(e)) = 1
          /\ \A m \in Range(mesh_folders) :
                Cardinality({i \in Kinds("attempt") : log[i].arg = m}) = 1

\* a completed run in which a simulation and the rendering pass failed and
\* nothing was tried again
NoRetryWitness ==
    /\ pc = "done" /\ exit_code = 0
    /\ Len(mesh_folders) >= 2
    /\ Failed("result")
    /\ Failed("plot_end")
    /\ Cardinality(Kinds("invoke")) = Len(mesh_folders)

InputDirNames == {n \in DOMAIN input_dir : input_dir[n]}

Underscores(n) == {i \in 1..Len(n) : n[i] = "_"}

Min(S) == CHOOSE x \in S : \A y \in S : x <= y

\* the (model, configuration) pair a folder name stands for: the text between
\* its first two underscores, and everything after the second underscore
NamedPair(n) ==
    LET u1 == Min(Underscores(n))
        u2 == Min(Underscores(n) \ {u1})
    IN  <<SubSeq(n, u1 + 1, u2 - 1), SubSeq(n, u2 + 1, Len(n))>>

GroupItems == {<<i, j>> \in (DOMAIN plot_folders) \X (1..MaxInputDirs + 1) : j \in DOMAIN plot_folders[i].configs}

GroupedPairs == {<<plot_folders[c[1]].model, plot_folders[c[1]].configs[c[2]].config>> : c \in GroupItems}

Grouped(m, k, n) ==
    \E c \in GroupItems : /\ plot_folders[c[1]].model = m
                          /\ plot_folders[c[1]].configs[c[2]].config = k
                          /\ plot_folders[c[1]].configs[c[2]].folder = n

\* C15: the grouping holds exactly the pairs of the directories whose name
\* starts with "<case_code>_" and names a model and a configuration, each
\* pair once, one entry per model and under it one entry per configuration;
\* other directories and plain files contribute nothing.
PlotAggregatorGrouping ==
    agg_pc # "main" =>
        LET matching == {n \in InputDirNames :
                            StartsWith(n, case_code \o Us) /\ Cardinality(Underscores(n)) >= 2}
        IN  /\ GroupedPairs = {NamedPair(n) : n \in matching}
            /\ Cardinality(GroupItems) = Cardinality(matching)
            /\ \A n \in matching : Grouped(NamedPair(n)[1], NamedPair(n)[2], n)
            /\ \A i, j \in DOMAIN plot_folders :
                  plot_folders[i].model = plot_folders[j].model => i = j
            /\ \A i \in DOMAIN plot_folders :
                  /\ plot_folders[i].configs # <<>>
                  /\ \A j, k \in DOMAIN plot_folders[i].configs :
                        plot_folders[i].configs[j].config = plot_folders[i].configs[k].config => j = k

\* two models were grouped while a folder of another case and a plain file
\* with a matching name were left out
PlotAggregatorGroupingWitness ==
    /\ agg_pc = "done"
    /\ case_code = C_A
    /\ Len(plot_folders) = 2
    /\ Build(C_B, M_S, K_1) \in InputDirNames
    /\ Build(C_A, M_S, <<"3">>) \in DOMAIN input_dir

\* C16 as stated: for every case code, model and configuration, the folder
\* named "<case_code>_<turb_model>_<configuration>" is grouped under that
\* model and that configuration.
FolderNameParsing ==
    agg_pc # "main" =>
        \A m \in TurbModels, k \in Configurations :
            Build(case_code, m, k) \in InputDirNames => Grouped(m, k, Build(case_code, m, k))

\* C16 amended: the same for every case code and model that hold no
\* underscore; only that one pair leads to the folder.
FolderNameParsingPlain ==
    agg_pc # "main" =>
        \A m \in TurbModels, k \in Configurations :
            ("_" \notin Range(case_code) /\ "_" \notin Range(m)
             /\ Build(case_code, m, k) \in InputDirNames) =>
                /\ Grouped(m, k, Build(case_code, m, k))
                /\ \A c \in GroupItems :
                      plot_folders[c[1]].configs[c[2]].folder = Build(case_code, m, k) =>
                          /\ plot_folders[c[1]].model = m
                          /\ plot_folders[c[1]].configs[c[2]].config = k

\* a folder whose configuration name holds an underscore was grouped
FolderNameParsingPlainWitness ==
    /\ agg_pc # "main"
    /\ case_code = C_A
    /\ Build(C_A, M_S, K_1x) \in InputDirNames
    /\ Grouped(M_S, K_1x, Build(C_A, M_S, K_1x))

\* C17: with no matching folder the aggregator ends without an error status
\* and without any image artifact or manifest.
EmptyInputNonFatal ==
    (agg_pc = "done" /\ plot_folders = <<>>) =>
        /\ agg_exit = 0
        /\ output_dir.files = <<>>
        /\ ~readme.written

\* C18: the grid has one row per model and as many columns as the longest
\* configuration list; the panel in row i, column j is drawn for the j-th
\* configuration of the i-th model and hidden when that model has fewer
\* configurations; the visible panels are as many as the grouped pairs.
MatrixLayout ==
    agg_pc \in {"index", "done"} /\ plot_folders # <<>> =>
        /\ ~matrix.error
        /\ matrix.rows = Len(plot_folders)
        /\ matrix.cols >= 1
        /\ \A i \in DOMAIN plot_folders : Len(plot_folders[i].configs) <= matrix.cols
        /\ \E i \in DOMAIN plot_folders : Len(plot_folders[i].configs) = matrix.cols
        /\ \A i \in 1..matrix.rows, j \in 1..matrix.cols :
              IF j <= Len(plot_folders[i].configs)
              THEN /\ <<i, j>> \in DOMAIN matrix.titled
                   /\ matrix.titled[<<i, j>>] = <<plot_folders[i].model, plot_folders[i].configs[j].config>>
                   /\ <<i, j>> \notin matrix.hidden
              ELSE /\ <<i, j>> \in matrix.hidden
                   /\ <<i, j>> \notin DOMAIN matrix.titled
        /\ Cardinality(((1..matrix.rows) \X (1..matrix.cols)) \ matrix.hidden) = Cardinality(GroupItems)

\* a 2 x 2 grid whose second row has one panel hidden
MatrixLayoutWitness ==
    /\ agg_pc = "done"
    /\ matrix.rows = 2 /\ matrix.cols = 2
    /\ matrix.hidden = {<<2, 2>>}

ManifestItems == {<<i, j>> \in (DOMAIN readme.groups) \X (1..MaxInputDirs + 1) : j \in DOMAIN readme.groups[i].configs}

\* C19: a written manifest lists every model in turn with each of its
\* configurations once, names the four image files, and each of the four was
\* written to the output directory before README.md; and a run that wrote
\* anything wrote the manifest.
ManifestComplete ==
    /\ readme.written =>
          /\ Len(readme.groups) = Len(plot_folders)
          /\ \A i \in DOMAIN readme.groups :
                /\ readme.groups[i].model = plot_folders[i].model
                /\ Len(readme.groups[i].configs) = Len(plot_folders[i].configs)
                /\ \A j \in DOMAIN readme.groups[i].configs :
                      readme.groups[i].configs[j] = plot_folders[i].configs[j].config
          /\ {<<readme.groups[c[1]].model, readme.groups[c[1]].configs[c[2]]>> : c \in ManifestItems} = GroupedPairs
          /\ Cardinality(ManifestItems) = Cardinality(GroupedPairs)
          /\ Len(readme.plots) = 4
          /\ Range(readme.plots) = {"combined_convergence.png", "combined_validation.png",
                                    "comparison_summary.png", "configuration_matrix.png"}
          /\ \E r \in DOMAIN output_dir.files :
                /\ output_dir.files[r] = "README.md"
                /\ \A p \in Range(readme.plots) : \E q \in 1..(r - 1) : output_dir.files[q] = p
    /\ (agg_pc = "done" /\ output_dir.files # <<>>) => readme.written

\* a manifest over two models, one of them with two configurations
ManifestCompleteWitness ==
    /\ readme.written
    /\ Len(readme.groups) = 2
    /\ \E i \in DOMAIN readme.groups : Len(readme.groups[i].configs) = 2
    /\ Len(output_dir.files) = 5

\* the k-th line of a text: the characters between its (k-1)-th and k-th
\* newline
TextLine(t, k) ==
    LET nl     == {i \in 1..Len(t) : t[i] = "\n"}
        nth(n) == CHOOSE i \in nl : Cardinality({j \in nl : j < i}) = n - 1
        from   == IF k = 1 THEN 1 ELSE nth(k - 1) + 1
        to     == IF k = Cardinality(nl) + 1 THEN Len(t) ELSE nth(k) - 1
    IN  SubSeq(t, from, to)

RECURSIVE Trim(_)
\* a text without its leading and trailing blanks
Trim(s) ==
    IF s = <<>> THEN s
    ELSE IF Head(s) \in Whitespace THEN Trim(Tail(s))
    ELSE IF s[Len(s)] \in Whitespace THEN Trim(SubSeq(s, 1, Len(s) - 1))
    ELSE s

\* a line that is not a comment and holds an '='
IsSetting(line) ==
    /\ \E i \in 1..Len(line) : line[i] = "="
    /\ \A i \in 1..Len(line) :
          (line[i] \notin Whitespace /\ \A j \in 1..(i - 1) : line[j] \in Whitespace)
              => line[i] \notin {"%", "#"}

FirstEq(line) == Min({i \in 1..Len(line) : line[i] = "="})

SettingKey(line) == Trim(SubSeq(line, 1, FirstEq(line) - 1))

SettingValue(line) == Trim(SubSeq(line, FirstEq(line) + 1, Len(line)))

\* C21: the returned mapping has exactly the non-empty keys of the lines that
\* are not comments and hold an '='; every entry is the trimmed text before
\* and after the first '=' of such a line, and a key's value is that of the
\* last such line with the key.
ConfigParsing ==
    cfg_pc = "returned" =>
        LET n        == Cardinality({i \in 1..Len(cfg_text) : cfg_text[i] = "\n"}) + 1
            settings == {k \in 1..n : IsSetting(TextLine(cfg_text, k))}
            key(k)   == SettingKey(TextLine(cfg_text, k))
            value(k) == SettingValue(TextLine(cfg_text, k))
        IN  /\ DOMAIN options = {key(k) : k \in settings} \ {<<>>}
            /\ \A x \in DOMAIN options : \E k \in settings : key(k) = x /\ value(k) = options[x]
            /\ \A k \in settings :
                  (key(k) # <<>> /\ \A j \in settings : j > k => key(j) # key(k))
                      => options[key(k)] = value(k)

\* the four example lines gave exactly A -> 1 and B -> two
ConfigParsingWitness ==
    /\ cfg_pc = "returned"
    /\ cfg_text = ExampleText
    /\ DOMAIN options = {<<"A">>, <<"B">>}
    /\ options[<<"A">>] = <<"1">>
    /\ options[<<"B">>] = <<"t", "w", "o">>

\* C23: while an external process runs the driver has done nothing beyond
\* starting it and its only step is the return of that process; a finished
\* run has had every started process return; and when every process returns
\* the driver reaches its exit.
BlockingWithoutTimeout ==
    /\ [](pc = "solving" =>
            /\ proc = "running" /\ exit_code = -1
            /\ log[Len(log)] = Event("invoke", mesh_folders[idx], TRUE)
            /\ Attempts = SubSeq(mesh_folders, 1, idx)
            /\ ~Happened("plot_start") /\ ~Happened("collect"))
    /\ [](pc = "plotting" =>
            /\ proc = "running" /\ exit_code = -1
            /\ log[Len(log)].ev = "plot_start"
            /\ ~Happened("collect"))
    /\ [](pc = "done" =>
            /\ proc = "none"
            /\ \A i \in Kinds("invoke") : i < Len(log) /\ log[i + 1].ev = "result"
            /\ \A i \in Kinds("plot_start") : i < Len(log) /\ log[i + 1].ev = "plot_end")
    /\ [][ /\ pc = "solving" =>
                (pc' = "step3" /\ proc' = "none" /\ Len(log') = Len(log) + 1
                 /\ log'[Len(log')].ev = "result" /\ log'[Len(log')].arg = mesh_folders[idx])
           /\ pc = "plotting" =>
                (pc' = "step5" /\ proc' = "none" /\ Len(log') = Len(log) + 1
                 /\ log'[Len(log')].ev = "plot_end")
         ]_vars
    /\ <>(pc = "done")

\* the solver runs in the first of several mesh folders: nothing else has
\* been attempted
BlockingWithoutTimeoutWitness ==
    /\ pc = "solving"
    /\ idx = 1
    /\ Len(mesh_folders) >= 2
    /\ Len(Attempts) = 1

\* C24: absent external changes, from the solver loop on every listed mesh
\* folder holds a Config.cfg, no folder fails for a missing configuration
\* file, and a finished loop has invoked the solver once in every discovered
\* mesh folder.
ConfigPresentInLoop ==
    (external = 0 /\ pc \in {"step3", "solving", "plotting", "step5"}) =>
        /\ Succeeded("distribute")
        /\ Range(mesh_folders) = DriverMeshFolders(main)
        /\ \A m \in Range(mesh_folders) : F_config \in DOMAIN main.ents[m].ents
        /\ \A i \in Kinds("attempt") : log[i + 1] = Event("invoke", log[i].arg, TRUE)
        /\ LoopFinished =>
              /\ Cardinality(Kinds("invoke")) = Len(mesh_folders)
              /\ \A m \in Range(mesh_folders) : \E i \in Kinds("invoke") : log[i].arg = m

\* the loop ran the solver in three folders, one of which had no Config.cfg
\* before the run
ConfigPresentInLoopWitness ==
    /\ external = 0
    /\ LoopFinished
    /\ Len(mesh_folders) = 3
    /\ Cardinality(Kinds("invoke")) = 3
    /\ \E m \in Range(mesh_folders) : F_config \notin DOMAIN fs0.m.ents[m].ents

\* C25: the mesh-folder list does not change once the loop is reached; the
\* folders the collector enumerates are, as a set, the folders the solver
\* was attempted in, and never Plot.py or the plots directory.
StageConsistency ==
    /\ [](Happened("collect") =>
            /\ Range(collected) = Range(Attempts)
            /\ Range(collected) = Range(mesh_folders)
            /\ Len(collected) = Len(mesh_folders)
            /\ D_plots \notin Range(collected)
            /\ F_plotpy \notin Range(collected))
    /\ [][pc \notin {"step1", "step2"} => mesh_folders' = mesh_folders]_vars

\* the rendering pass left a plots directory, and the collector enumerated
\* the folders in another order than the solver loop ran them
StageConsistencyWitness ==
    /\ Happened("collect")
    /\ external = 0
    /\ D_plots \in DOMAIN main.ents
    /\ F_plotpy \in DOMAIN main.ents
    /\ Len(mesh_folders) >= 2
    /\ collected # mesh_folders

\* the history files of the Mesh folders of an output tree
BundleHistories(tree) ==
    {tree.ents[n].ents[F_hist] : n \in {d \in DOMAIN tree.ents : d # D_plots /\ F_hist \in DOMAIN tree.ents[d].ents}}

\* an output tree all of whose Mesh folders hold the history file of one
\* instance's solver runs
OwnBundle(i, tree) ==
    /\ tree.exists
    /\ \A n \in DOMAIN tree.ents : n # D_plots => F_hist \in DOMAIN tree.ents[n].ents
    /\ BundleHistories(tree) = {RunOutput(i)}

\* C22: no step of an instance waits for the other instance; the result
\* bundle is always what the instance that collected last left (last writer
\* wins); and when the two runs did not overlap, each instance left a bundle
\* made of its own solver results only.
ConcurrentRunsUnsafe ==
    /\ \A i \in Instances :
          /\ c_pc[i] = "step1" => ENABLED CReconcile(i)
          /\ c_pc[i] = "step2" => ENABLED CDistribute(i)
          /\ c_pc[i] = "step3" => ENABLED (CSimulationStart(i) \/ CPlotStart(i))
          /\ c_pc[i] = "step5" => ENABLED CCollect(i)
    /\ c_out.exists => \E i \in Instances : c_pc[i] = "done" /\ c_out = c_view[i]
    /\ ~c_overlap => \A i \in Instances : c_pc[i] = "done" => OwnBundle(i, c_view[i])

\* both runs are over, they overlapped, and the bundle the first instance
\* left, which is the final bundle, holds solver results of both instances
ConcurrentRunsUnsafeWitness ==
    /\ \A i \in Instances : c_pc[i] = "done"
    /\ c_overlap
    /\ c_out = c_view[1]
    /\ BundleHistories(c_view[1]) = {RunOutput(1), RunOutput(2)}
    /\ \A n \in ConcFolders : c_main.ents[n].ents[F_config] = "auth"

====
